---- MODULE Spec2Model ----
(***************************************************************************)
(* Verification model of reddit-insight-engine.                            *)
(*                                                                         *)
(*   production_bot.py : the posts store (init_db, save_post,              *)
(*                       get_unreported_data) and the hourly scan          *)
(*   app.py / appv1.py : get_list_from_data and run_universal_engine       *)
(*                                                                         *)
(* The specifications share the variables:                                 *)
(*   Spec       the background bot: scan, store, daily report              *)
(*   EngineSpec one run of run_universal_engine (both variants)            *)
(*   NormSpec   get_list_from_data applied to bounded inputs               *)
(*   FullSpec   any of the three                                           *)
(*   DigestSpec the digest text applied to window reads of bounded size    *)
(*   MainSpec   the main loop of production_bot.py on a wall clock         *)
(***************************************************************************)
EXTENDS Integers, Sequences, FiniteSets, TLC

VARIABLES
    \* ---- production_bot.py ----
    posts,        \* the posts table, rows in rowid (insertion) order
    now,          \* datetime.now(), in hours
    botPc,        \* "idle" | "search" | "save" in run_hourly_scan, "report"
    subIdx,       \* index of the current subreddit in target_subreddits
    pending,      \* post ids still to be yielded by the current search
    total_new,    \* run_hourly_scan's counter
    scanLog,      \* subreddits attempted in this scan, with outcome
    saveCall,     \* record of the last save_post call
    raw_data,     \* rows returned by the last get_unreported_data
    readAt,       \* value of now at the last get_unreported_data, -1 if none
    report,       \* what the last generate_daily_report did
    firstCall,    \* history: id -> <<row of the first committed save_post>>
    \* ---- app.py / appv1.py : run_universal_engine ----
    variant,      \* "app" | "appv1"
    recipe,       \* the plan handed to run_universal_engine
    enginePc,     \* "start" | "scan" | "final" | "done"
    targets,      \* the target list being scanned
    keywords,     \* the keyword list
    tIdx,         \* loop index i of the scanning loop
    collected_data, \* appended item blocks
    searchLog,    \* search calls issued, in order, with outcome
    llmInput,     \* text blob passed to the completion call, <<>> if none
    llmCalls,     \* number of completion calls made in this run
    result,       \* what run_universal_engine returned
    \* ---- get_list_from_data under test ----
    normData,     \* input value
    normField,    \* input field name
    normOut,      \* "pending" | the outcome record
    \* ---- production_bot.py : __main__ on a wall clock ----
    clock,        \* datetime.now(), in minutes since midnight of day 0
    mainPc,       \* "scan" | "check"  position in the main loop
    reportLog     \* history: the generate_daily_report calls, in order

botVars == <<posts, now, botPc, subIdx, pending, total_new, scanLog, saveCall,
             raw_data, readAt, report, firstCall>>
engineVars == <<variant, recipe, enginePc, targets, keywords, tIdx,
                collected_data, searchLog, llmInput, llmCalls, result>>
normVars == <<normData, normField, normOut>>
mainVars == <<clock, mainPc, reportLog>>
vars == <<botVars, engineVars, normVars, mainVars>>

----------------------------------------------------------------------------
(* Generic helpers *)

Min(a, b) == IF a <= b THEN a ELSE b

Range(s) == {s[i] : i \in DOMAIN s}

RECURSIVE Join(_, _)
\* sep.join(blocks): the blocks with the separator between neighbours
Join(blocks, sep) ==
    IF blocks = <<>> THEN <<>>
    ELSE IF Len(blocks) = 1 THEN <<blocks[1]>>
    ELSE <<blocks[1], sep>> \o Join(Tail(blocks), sep)

----------------------------------------------------------------------------
(* Python values as app.py / appv1.py see them.  A str is a sequence of     *)
(* one-character strings; a dict is its items in insertion order.           *)

UpperChars == <<"A", "B", "C", "D", "E", "F", "G", "H", "I", "J", "K", "L", "M", "N", "O", "P", "Q", "R", "S", "T", "U", "V", "W", "X", "Y", "Z">>
LowerChars == <<"a", "b", "c", "d", "e", "f", "g", "h", "i", "j", "k", "l", "m", "n", "o", "p", "q", "r", "s", "t", "u", "v", "w", "x", "y", "z">>
DigitChars == <<"0", "1", "2", "3", "4", "5", "6", "7", "8", "9">>

\* str.lower(), one character
LowerChar(c) ==
    IF \E i \in DOMAIN UpperChars : UpperChars[i] = c
    THEN LowerChars[CHOOSE i \in DOMAIN UpperChars : UpperChars[i] = c]
    ELSE c

\* str.lower()
PyLower(s) == [i \in DOMAIN s |-> LowerChar(s[i])]

RECURSIVE LStrip(_)
LStrip(s) == IF s # <<>> /\ Head(s) = " " THEN LStrip(Tail(s)) ELSE s

RECURSIVE RStrip(_)
RStrip(s) ==
    IF s # <<>> /\ s[Len(s)] = " " THEN RStrip(SubSeq(s, 1, Len(s) - 1)) ELSE s

\* str.strip()
PyStrip(s) == RStrip(LStrip(s))

\* s[k..] starts with pat
StartsAt(s, k, pat) ==
    /\ k + Len(pat) - 1 <= Len(s)
    /\ \A j \in 1..Len(pat) : s[k + j - 1] = pat[j]

\* pat in s   (str containment)
PyContains(s, pat) == \E k \in 1..(Len(s) + 1) : StartsAt(s, k, pat)

RECURSIVE RemoveFrom(_, _, _)
RemoveFrom(s, k, pat) ==
    IF k > Len(s) THEN <<>>
    ELSE IF StartsAt(s, k, pat) THEN RemoveFrom(s, k + Len(pat), pat)
    ELSE <<s[k]>> \o RemoveFrom(s, k + 1, pat)

\* s.replace(pat, ""): every non-overlapping occurrence, left to right
PyRemoveAll(s, pat) == RemoveFrom(s, 1, pat)

RECURSIVE Digits(_)
\* str(n) for an int n >= 0
Digits(n) ==
    IF n < 10 THEN <<DigitChars[n + 1]>>
    ELSE Digits(n \div 10) \o <<DigitChars[(n % 10) + 1]>>

PStr(s) == [t |-> "str", v |-> s]
PInt(n) == [t |-> "int", v |-> n]
PNone == [t |-> "none", v |-> 0]
PList(xs) == [t |-> "list", v |-> xs]
PDict(items) == [t |-> "dict", v |-> items]
PFrame(cols, rows) == [t |-> "frame", v |-> [columns |-> cols, rows |-> rows]]

\* a == b on the values modelled (no numeric str/int coercion in Python)
PyEq(a, b) == a.t = b.t /\ a.v = b.v

\* key in d, d a dict
DictHas(d, key) == \E i \in DOMAIN d.v : PyEq(d.v[i][1], key)

\* d[key]
DictGet(d, key) == d.v[CHOOSE i \in DOMAIN d.v : PyEq(d.v[i][1], key)][2]

RECURSIVE PyStr(_)
RECURSIVE PyRepr(_)
RECURSIVE JoinRepr(_)
RECURSIVE JoinItems(_)

\* ", ".join(repr(x) for x in xs)
JoinRepr(xs) ==
    IF xs = <<>> THEN <<>>
    ELSE IF Len(xs) = 1 THEN PyRepr(xs[1])
    ELSE PyRepr(xs[1]) \o <<",", " ">> \o JoinRepr(Tail(xs))

\* ", ".join(repr(k) + ": " + repr(v) for k, v in items)
JoinItems(items) ==
    IF items = <<>> THEN <<>>
    ELSE LET one == PyRepr(items[1][1]) \o <<":", " ">> \o PyRepr(items[1][2])
         IN  IF Len(items) = 1 THEN one
             ELSE one \o <<",", " ">> \o JoinItems(Tail(items))

\* repr(x): a str in quotes, anything else as str(x)
PyRepr(x) == IF x.t = "str" THEN <<"'">> \o x.v \o <<"'">> ELSE PyStr(x)

\* str(x)
PyStr(x) ==
    CASE x.t = "str" -> x.v
      [] x.t = "int" -> Digits(x.v)
      [] x.t = "none" -> <<"N", "o", "n", "e">>
      [] x.t = "list" -> <<"[">> \o JoinRepr(x.v) \o <<"]">>
      [] x.t = "dict" -> <<"{">> \o JoinItems(x.v) \o <<"}">>
      [] OTHER -> <<"<", "f", "r", "a", "m", "e", ">">>

\* the outcome of a call: a returned list, or an exception leaving the call
Returned(xs) == [raised |-> FALSE, val |-> xs]
Raised == [raised |-> TRUE, val |-> <<>>]

----------------------------------------------------------------------------
(* app.py : get_list_from_data, lines 38-82 *)

RECURSIVE DropNone(_)
\* Series.dropna(): the cells that are neither None nor NaN
DropNone(cells) ==
    IF cells = <<>> THEN <<>>
    ELSE (IF Head(cells).t = "none" THEN <<>> ELSE <<Head(cells)>>)
         \o DropNone(Tail(cells))

\* column.dropna().astype(str).tolist(): a column of ints with a missing
\* cell is a float column, so its values print as "5.0"
ColumnStrings(cells) ==
    LET kept == DropNone(cells)
        floats == /\ Len(kept) < Len(cells)
                  /\ \A i \in DOMAIN kept : kept[i].t = "int"
    IN  [i \in DOMAIN kept |->
            PStr(IF floats THEN PyStr(kept[i]) \o <<".", "0">> ELSE PyStr(kept[i]))]

RECURSIVE MatchingLabels(_, _)
\* [c for c in data.columns if str(c).lower() == column_name.lower()]
MatchingLabels(cols, column_name) ==
    IF cols = <<>> THEN <<>>
    ELSE (IF PyLower(PyStr(Head(cols))) = PyLower(column_name)
          THEN <<Head(cols)>> ELSE <<>>)
         \o MatchingLabels(Tail(cols), column_name)

\* data[label].dropna().astype(str).tolist(): with the label on two columns
\* data[label] is a DataFrame, which has no tolist
FrameColumn(frame, label) ==
    LET sel == {j \in DOMAIN frame.columns : PyEq(frame.columns[j], label)}
    IN  IF Cardinality(sel) # 1 THEN Raised
        ELSE LET j == CHOOSE j \in sel : TRUE
             IN  Returned(ColumnStrings([r \in DOMAIN frame.rows |-> frame.rows[r][j]]))

\* lines 44-49
FromFrame(data, column_name) ==
    LET matches == MatchingLabels(data.v.columns, column_name)
    IN  IF matches # <<>> THEN FrameColumn(data.v, matches[1]) ELSE Returned(<<>>)

\* val if isinstance(val, list) else [str(val)]
AsList(val) == IF val.t = "list" THEN val.v ELSE <<PStr(PyStr(val))>>

\* the keys that pass lines 60-61: str keys equal to column_name ignoring case
CaseKeys(data, column_name) ==
    {i \in DOMAIN data.v :
        /\ data.v[i][1].t = "str"
        /\ PyLower(data.v[i][1].v) = PyLower(column_name)}

\* `column_name in row` at line 69, where it does not raise
RowHas(row, column_name) ==
    CASE row.t = "dict" -> DictHas(row, PStr(column_name))
      [] row.t = "list" -> \E i \in DOMAIN row.v : PyEq(row.v[i], PStr(column_name))
      [] row.t = "str" -> PyContains(row.v, column_name)
      [] OTHER -> FALSE

\* whether line 69 raises on this row: `in` on an int or None, or
\* row[column_name] on a list or a str that passed the `in` test
RowRaises(row, column_name) ==
    CASE row.t = "dict" -> FALSE
      [] row.t \in {"list", "str"} -> RowHas(row, column_name)
      [] OTHER -> TRUE

RECURSIVE RowValues(_, _)
\* [row[column_name] for row in data.values() if column_name in row]
RowValues(items, column_name) ==
    IF items = <<>> THEN <<>>
    ELSE LET row == Head(items)[2]
         IN  (IF RowHas(row, column_name)
              THEN <<DictGet(row, PStr(column_name))>> ELSE <<>>)
             \o RowValues(Tail(items), column_name)

\* lines 67-69: the fallback for a dict keyed by row number
FromRowDict(data, column_name) ==
    LET first_val == IF data.v = <<>> THEN PNone ELSE data.v[1][2]
    IN  IF first_val.t = "dict" /\ DictHas(first_val, PStr(column_name))
        THEN IF \E i \in DOMAIN data.v : RowRaises(data.v[i][2], column_name)
             THEN Raised
             ELSE Returned(RowValues(data.v, column_name))
        ELSE Returned(<<>>)

\* lines 52-69
FromDict(data, column_name) ==
    IF DictHas(data, PStr(column_name))
    THEN Returned(AsList(DictGet(data, PStr(column_name))))
    ELSE LET hits == CaseKeys(data, column_name)
         IN  IF hits # {}
             THEN Returned(AsList(data.v[CHOOSE i \in hits : \A j \in hits : i <= j][2]))
             ELSE FromRowDict(data, column_name)

RECURSIVE RowMatches(_, _)
\* lines 77-79: the values of the keys k of one row with
\* str(k).lower() == column_name.lower(), in the row's order
RowMatches(items, column_name) ==
    IF items = <<>> THEN <<>>
    ELSE (IF PyLower(PyStr(Head(items)[1])) = PyLower(column_name)
          THEN <<Head(items)[2]>> ELSE <<>>)
         \o RowMatches(Tail(items), column_name)

RECURSIVE Extracted(_, _)
\* lines 73-79
Extracted(rows, column_name) ==
    IF rows = <<>> THEN <<>>
    ELSE (IF Head(rows).t = "dict" THEN RowMatches(Head(rows).v, column_name) ELSE <<>>)
         \o Extracted(Tail(rows), column_name)

\* get_list_from_data(data, column_name) of app.py
get_list_from_data(data, column_name) ==
    CASE data.t = "frame" -> FromFrame(data, column_name)
      [] data.t = "dict" -> FromDict(data, column_name)
      [] data.t = "list" -> Returned(Extracted(data.v, column_name))
      [] OTHER -> Returned(<<>>)

----------------------------------------------------------------------------
(* appv1.py : get_list_from_data, lines 38-68 *)

RECURSIVE AddKeys(_, _)
\* labels, then the keys of items not yet among them, in order
AddKeys(labels, items) ==
    IF items = <<>> THEN labels
    ELSE LET k == Head(items)[1]
         IN  AddKeys(IF \E i \in DOMAIN labels : PyEq(labels[i], k)
                     THEN labels ELSE Append(labels, k),
                     Tail(items))

RECURSIVE UnionKeys(_, _)
\* the columns of pd.DataFrame(rows): the keys in order of first appearance
UnionKeys(labels, rows) ==
    IF rows = <<>> THEN labels
    ELSE UnionKeys(AddKeys(labels, Head(rows).v), Tail(rows))

\* the cell of a row under a label: the value, NaN (None) when the key is missing
Cell(row, label) == IF DictHas(row, label) THEN DictGet(row, label) ELSE PNone

\* pd.DataFrame(list of dicts)
FrameOfRows(rows) ==
    LET cols == UnionKeys(<<>>, rows)
    IN  [columns |-> cols,
         rows |-> [r \in DOMAIN rows |-> [j \in DOMAIN cols |-> Cell(rows[r], cols[j])]]]

\* lines 44-51: the frame the input is converted to; bad = TRUE when pandas
\* raises (a non-dict after a first dict) or the input is of no handled type.
\* A list that does not start with a dict becomes one column labelled 0.
ToFrame(data) ==
    CASE data.t = "frame" -> [bad |-> FALSE, df |-> data.v]
      [] data.t = "dict" -> [bad |-> FALSE, df |-> FrameOfRows(<<data>>)]
      [] data.t = "list" ->
           IF data.v = <<>>
           THEN [bad |-> FALSE, df |-> [columns |-> <<>>, rows |-> <<>>]]
           ELSE IF data.v[1].t = "dict"
           THEN IF \A i \in DOMAIN data.v : data.v[i].t = "dict"
                THEN [bad |-> FALSE, df |-> FrameOfRows(data.v)]
                ELSE [bad |-> TRUE, df |-> [columns |-> <<>>, rows |-> <<>>]]
           ELSE [bad |-> FALSE,
                 df |-> [columns |-> <<PInt(0)>>,
                         rows |-> [r \in DOMAIN data.v |-> <<data.v[r]>>]]]
      [] OTHER -> [bad |-> TRUE, df |-> [columns |-> <<>>, rows |-> <<>>]]

\* line 54: [str(c).lower().strip() for c in df.columns]
CleanLabels(cols) == [j \in DOMAIN cols |-> PyStrip(PyLower(PyStr(cols[j])))]

\* df[label].dropna().astype(str).tolist() with the cleaned labels: a label
\* carried by two columns selects a DataFrame and .tolist() raises, which
\* the bare except turns into []
LabelColumn(df, labels, label) ==
    LET sel == {j \in DOMAIN labels : labels[j] = label}
    IN  IF Cardinality(sel) # 1 THEN <<>>
        ELSE LET j == CHOOSE j \in sel : TRUE
             IN  ColumnStrings([r \in DOMAIN df.rows |-> df.rows[r][j]])

\* get_list_from_data(data, column_name) of appv1.py: always a list
get_list_from_data_v1(data, column_name) ==
    LET fr == ToFrame(data)
        labels == CleanLabels(fr.df.columns)
        target == PyStrip(PyLower(column_name))
        exact == {j \in DOMAIN labels : labels[j] = target}
        partial == {j \in DOMAIN labels : PyContains(labels[j], target)}
    IN  IF fr.bad THEN <<>>
        ELSE IF exact # {} THEN LabelColumn(fr.df, labels, target)
        ELSE IF partial # {}
             THEN LabelColumn(fr.df, labels,
                              labels[CHOOSE j \in partial : \A k \in partial : j <= k])
        ELSE <<>>

----------------------------------------------------------------------------
(* production_bot.py : configuration and the platform seen by the scan *)

\* STRATEGY['target_subreddits']
target_subreddits == <<"recruiting", "humanresources", "technicalrecruiting", "sales">>

\* timedelta(hours=24)
WindowHours == 24

\* The platform's posts matching the query: id -> subreddit. A Reddit post id
\* belongs to one subreddit.
PostIds == {"p1", "p2", "p3"}
SubOf(id) == IF id = "p3" THEN "sales" ELSE "recruiting"

\* Content of a post changes between captures (edits, votes, comments).
Versions == {1, 2}
TitleOf(id, v) == <<id, "title", v>>
BodyOf(id, v) == <<id, "body", v>>
UrlOf(id) == <<id, "url">>

----------------------------------------------------------------------------
(* production_bot.py : DATABASE LAYER *)

\* init_db: CREATE TABLE IF NOT EXISTS posts (id TEXT PRIMARY KEY, ...,
\* is_reported BOOLEAN DEFAULT 0). A fresh database has no rows.
init_db == <<>>

HasId(tbl, id) == \E i \in DOMAIN tbl : tbl[i].id = id

\* The row save_post binds: the seven listed columns, captured_at =
\* datetime.now(), is_reported left to its DEFAULT 0.
NewRow(post_data, t) ==
    [id |-> post_data.id, subreddit |-> post_data.subreddit,
     title |-> post_data.title, body |-> post_data.body, url |-> post_data.url,
     heat_score |-> post_data.heat_score, captured_at |-> t, is_reported |-> 0]

\* (variation: INSERT OR REPLACE)
InsertOrOverwrite(tbl, row) ==
    IF HasId(tbl, row.id)
    THEN [i \in DOMAIN tbl |-> IF tbl[i].id = row.id THEN row ELSE tbl[i]]
    ELSE Append(tbl, row)

\* INSERT OR IGNORE INTO posts: a row whose primary key is already present
\* is left alone and nothing is added; otherwise the row is appended.
InsertOrIgnore(tbl, row) ==
    IF HasId(tbl, row.id) THEN tbl ELSE Append(tbl, row)

\* save_post's return value: True after the commit, False from the except
\* branch. dbOk = FALSE stands for sqlite3 raising (locked or unwritable file).
SavePostReturn(tbl, post_data, dbOk) == dbOk

\* The table after save_post.
SavePostTable(tbl, post_data, t, dbOk) ==
    IF dbOk THEN InsertOrIgnore(tbl, NewRow(post_data, t)) ELSE tbl

\* (variation: captured_at >= since_time)
InWindowInclusive(row, t) == row.captured_at >= t - WindowHours

\* WHERE captured_at > ?, with since_time = datetime.now() - timedelta(hours=24)
InWindow(row, t) == row.captured_at > t - WindowHours

RECURSIVE WindowRows(_, _)
\* the rows the WHERE clause keeps, in rowid order
WindowRows(tbl, t) ==
    IF tbl = <<>> THEN <<>>
    ELSE (IF InWindow(Head(tbl), t) THEN <<Head(tbl)>> ELSE <<>>)
         \o WindowRows(Tail(tbl), t)

\* ORDER BY heat_score DESC
HeatDescending(a, b) == a.heat_score >= b.heat_score

IsOrdered(s) == \A i \in 1..(Len(s) - 1) : HeatDescending(s[i], s[i + 1])

\* The orders the query may return rows in: the ORDER BY names heat_score
\* alone, so rows of equal heat_score may come in any relative order.
OrderByHeat(rows) ==
    LET n == Len(rows)
        cand == {[i \in 1..n |-> rows[p[i]]] : p \in Permutations(1..n)}
    IN  {s \in cand : IsOrdered(s)}

----------------------------------------------------------------------------
(* production_bot.py : the bot *)

\* Clock granularity and horizon of the model.
TickHours == 12
MaxTime == 36

\* heat = post.score + post.num_comments, as the platform reports it: a post
\* gathers votes and comments as it is edited
HeatOf(v) == IF v = 1 THEN 1 ELSE 3

\* What subreddit.search(...) can yield for a subreddit: some of its posts.
SearchResults(sub) ==
    IF sub = "recruiting"
    THEN {<<>>, <<"p1">>, <<"p2">>, <<"p1", "p2">>, <<"p2", "p1">>}
    ELSE IF sub = "sales" THEN {<<>>, <<"p3">>}
    ELSE {<<>>}

NoSave == [called |-> FALSE, id |-> "", title |-> <<>>, existed |-> FALSE,
           inserted |-> FALSE, ret |-> FALSE]
NoRead == 0 - 1
NoReport == [state |-> "none", calls |-> 0, blob |-> <<>>]

\* STRATEGY['min_heat_score']
min_heat_score == 2

\* the slice [:20] of the low-heat rows, line 142
LowHeatCap == 20

RECURSIVE HeatFilter(_, _)
\* [r for r in rows if r[5] >= min_heat_score] when high, r[5] < ... when not
HeatFilter(rows, high) ==
    IF rows = <<>> THEN <<>>
    ELSE (IF (Head(rows).heat_score >= min_heat_score) = high
          THEN <<Head(rows)>> ELSE <<>>)
         \o HeatFilter(Tail(rows), high)

\* lines 140-144: combined_data
CombinedData(rows) ==
    LET low == HeatFilter(rows, FALSE)
    IN  HeatFilter(rows, TRUE) \o SubSeq(low, 1, Min(Len(low), LowHeatCap))

\* line 146: one block per row, "[heat pts] r/sub: title\nContext: body...",
\* joined with "\n"
TextBlob(rows) ==
    Join([i \in DOMAIN rows |->
            [heat_score |-> rows[i].heat_score, subreddit |-> rows[i].subreddit,
             title |-> rows[i].title, context |-> rows[i].body]],
         [text |-> "\n"])

engineIdle ==
    /\ variant = "app" /\ recipe = [t |-> "none", v |-> 0] /\ enginePc = "off"
    /\ targets = <<>> /\ keywords = <<>> /\ tIdx = 0
    /\ collected_data = <<>> /\ searchLog = <<>>
    /\ llmInput = <<>> /\ llmCalls = 0 /\ result = "none"

normIdle ==
    /\ normData = [t |-> "none", v |-> 0] /\ normField = <<>>
    /\ normOut = [fn |-> "off", raised |-> FALSE, val |-> <<>>]

mainIdle == clock = 0 /\ mainPc = "off" /\ reportLog = <<>>

\* __main__: init_db(), then the first scan is about to start
Init ==
    /\ posts = init_db
    /\ now = 0
    /\ botPc = "idle"
    /\ subIdx = 0
    /\ pending = <<>>
    /\ total_new = 0
    /\ scanLog = <<>>
    /\ saveCall = NoSave
    /\ raw_data = <<>>
    /\ readAt = NoRead
    /\ report = NoReport
    /\ firstCall = [id \in PostIds |-> <<>>]
    /\ engineIdle
    /\ normIdle
    /\ mainIdle

\* time.sleep(...): the clock advances while the bot sleeps
Tick ==
    /\ botPc = "idle"
    /\ now + TickHours <= MaxTime
    /\ now' = now + TickHours
    /\ saveCall' = NoSave /\ raw_data' = <<>> /\ readAt' = NoRead
    /\ report' = NoReport
    /\ scanLog' = <<>>
    /\ UNCHANGED <<posts, botPc, subIdx, pending, total_new, firstCall>>
    /\ UNCHANGED <<engineVars, normVars, mainVars>>

\* run_hourly_scan, lines 82-91: praw.Reddit(...) built, total_new = 0
StartScan ==
    /\ botPc = "idle"
    /\ botPc' = "search"
    /\ subIdx' = 1
    /\ total_new' = 0
    /\ scanLog' = <<>>
    /\ pending' = <<>>
    /\ saveCall' = NoSave /\ raw_data' = <<>> /\ readAt' = NoRead
    /\ report' = NoReport
    /\ UNCHANGED <<posts, now, firstCall>>
    /\ UNCHANGED <<engineVars, normVars, mainVars>>

\* the outer except: praw.Reddit(...) raises, nothing is scanned
ScanCritical ==
    /\ botPc = "idle"
    /\ scanLog' = <<>>
    /\ total_new' = 0
    /\ saveCall' = NoSave /\ raw_data' = <<>> /\ readAt' = NoRead
    /\ report' = NoReport
    /\ UNCHANGED <<posts, now, botPc, subIdx, pending, firstCall>>
    /\ UNCHANGED <<engineVars, normVars, mainVars>>

\* after the current subreddit: the for loop's next iteration or its end
NextSub(i) == IF i < Len(target_subreddits) THEN "search" ELSE "idle"

\* lines 93-99 with the search succeeding: the results are about to be iterated
SearchOk ==
    /\ botPc = "search"
    /\ \E res \in SearchResults(target_subreddits[subIdx]) :
          /\ pending' = res
          /\ scanLog' = Append(scanLog, [sub |-> target_subreddits[subIdx], ok |-> TRUE])
          /\ IF res = <<>>
             THEN /\ botPc' = NextSub(subIdx)
                  /\ subIdx' = IF subIdx < Len(target_subreddits) THEN subIdx + 1 ELSE 0
             ELSE /\ botPc' = "save"
                  /\ subIdx' = subIdx
    /\ saveCall' = NoSave
    /\ UNCHANGED <<posts, now, total_new, raw_data, readAt, report, firstCall>>
    /\ UNCHANGED <<engineVars, normVars, mainVars>>

\* lines 117-119: the search raises; logged, continue with the next subreddit
SearchFails ==
    /\ botPc = "search"
    /\ scanLog' = Append(scanLog, [sub |-> target_subreddits[subIdx], ok |-> FALSE])
    /\ botPc' = NextSub(subIdx)
    /\ subIdx' = IF subIdx < Len(target_subreddits) THEN subIdx + 1 ELSE 0
    /\ pending' = <<>>
    /\ saveCall' = NoSave
    /\ UNCHANGED <<posts, now, total_new, raw_data, readAt, report, firstCall>>
    /\ UNCHANGED <<engineVars, normVars, mainVars>>

\* lines 101-115: one iteration of the inner loop: build post_data, save_post,
\* total_new += 1
SavePost ==
    /\ botPc = "save"
    /\ \E v \in Versions, dbOk \in BOOLEAN :
          LET id == Head(pending)
              post_data == [id |-> id, subreddit |-> target_subreddits[subIdx],
                            title |-> TitleOf(id, v), body |-> BodyOf(id, v),
                            url |-> UrlOf(id), heat_score |-> HeatOf(v)]
              after == SavePostTable(posts, post_data, now, dbOk)
          IN  /\ posts' = after
              /\ saveCall' = [called |-> TRUE, id |-> id,
                              title |-> post_data.title,
                              existed |-> HasId(posts, id),
                              inserted |-> Len(after) > Len(posts),
                              ret |-> SavePostReturn(posts, post_data, dbOk)]
              /\ firstCall' = IF dbOk /\ firstCall[id] = <<>>
                              THEN [firstCall EXCEPT ![id] = <<NewRow(post_data, now)>>]
                              ELSE firstCall
    /\ total_new' = total_new + 1
    /\ pending' = Tail(pending)
    /\ IF Len(pending) = 1
       THEN /\ botPc' = NextSub(subIdx)
            /\ subIdx' = IF subIdx < Len(target_subreddits) THEN subIdx + 1 ELSE 0
       ELSE UNCHANGED <<botPc, subIdx>>
    /\ UNCHANGED <<now, scanLog, raw_data, readAt, report>>
    /\ UNCHANGED <<engineVars, normVars, mainVars>>

\* generate_daily_report(), lines 127-186: get_unreported_data() (lines
\* 69-78), then either the "No data found" warning and return, or the text
\* blob and one completion call, whose text is saved or whose failure is logged
GenerateDailyReport ==
    /\ botPc = "idle"
    /\ \E rows \in OrderByHeat(WindowRows(posts, now)) :
          /\ raw_data' = rows
          /\ IF rows = <<>>
             THEN report' = [state |-> "skipped", calls |-> 0, blob |-> <<>>]
             ELSE \E ok \in BOOLEAN :
                     report' = [state |-> IF ok THEN "saved" ELSE "failed",
                                calls |-> 1,
                                blob |-> TextBlob(CombinedData(rows))]
    /\ readAt' = now
    /\ saveCall' = NoSave
    /\ scanLog' = <<>>
    /\ UNCHANGED <<posts, now, botPc, subIdx, pending, total_new, firstCall>>
    /\ UNCHANGED <<engineVars, normVars, mainVars>>

Next ==
    \/ Tick
    \/ StartScan
    \/ ScanCritical
    \/ SearchOk
    \/ SearchFails
    \/ SavePost
    \/ GenerateDailyReport

Spec == Init /\ [][Next]_vars

----------------------------------------------------------------------------
(* Properties of the posts store *)

RowsOf(tbl, id) == {i \in DOMAIN tbl : tbl[i].id = id}

\* C1: after any sequence of save_post calls the table holds exactly one row
\* per distinct id ever committed, and that row is the row of the first
\* committed call with that id (title and every other field); a later call
\* with the same id changes nothing and adds nothing.
C1_OneRowPerIdFirstWins ==
    /\ \A id \in PostIds :
          IF firstCall[id] = <<>>
          THEN RowsOf(posts, id) = {}
          ELSE /\ Cardinality(RowsOf(posts, id)) = 1
               /\ \A i \in RowsOf(posts, id) : posts[i] = firstCall[id][1]
    /\ Len(posts) = Cardinality({id \in PostIds : firstCall[id] # <<>>})

\* a committed save_post on an id already stored, carrying another title
C1_Witness ==
    /\ saveCall.called /\ saveCall.existed /\ saveCall.ret
    /\ \E i \in DOMAIN posts :
          posts[i].id = saveCall.id /\ posts[i].title # saveCall.title

\* C2 (as claimed): save_post returns true exactly when the call inserted a
\* new row, and false when a row with the id already existed.
C2_ReturnsTrueIffNew ==
    saveCall.called =>
        /\ saveCall.ret <=> saveCall.inserted
        /\ saveCall.existed => ~saveCall.ret

RECURSIVE InsertByHeat(_, _)
\* r placed after every row of s whose heat_score is >= its own
InsertByHeat(s, r) ==
    IF s = <<>> THEN <<r>>
    ELSE IF Head(s).heat_score >= r.heat_score
         THEN <<Head(s)>> \o InsertByHeat(Tail(s), r)
         ELSE <<r>> \o s

RECURSIVE StableByHeat(_)
\* rows by descending heat_score, equal heat_score in the order given
StableByHeat(rows) ==
    IF rows = <<>> THEN <<>>
    ELSE InsertByHeat(StableByHeat(SubSeq(rows, 1, Len(rows) - 1)), rows[Len(rows)])

----------------------------------------------------------------------------
(* get_list_from_data applied to bounded inputs *)

\* the field names run_universal_engine asks for
TARGET_SUBREDDITS == <<"t", "a", "r", "g", "e", "t", "_", "s", "u", "b", "r", "e", "d", "d", "i", "t", "s">>
TARGET_SUBREDDIT == <<"t", "a", "r", "g", "e", "t", "_", "s", "u", "b", "r", "e", "d", "d", "i", "t">>
SEARCH_KEYWORDS == <<"s", "e", "a", "r", "c", "h", "_", "k", "e", "y", "w", "o", "r", "d", "s">>

FieldNames == <<TARGET_SUBREDDITS, SEARCH_KEYWORDS>>

\* most items of a dict, most elements of a list
MaxItems == 2

KeyPool ==
    << PStr(TARGET_SUBREDDITS),
       PStr(<<"T", "a", "r", "g", "e", "t", "_", "S", "u", "b", "r", "e", "d", "d", "i", "t", "s">>),
       PStr(SEARCH_KEYWORDS),
       PInt(0),
       PInt(1) >>

ValPool ==
    << PStr(<<"r", "/", "h", "r">>),
       PInt(5),
       PNone,
       PList(<<PStr(<<"r", "/", "h", "r">>), PStr(<<"s", "a", "l", "e", "s">>)>>),
       PDict(<< <<PStr(TARGET_SUBREDDITS), PStr(<<"h", "r">>)>>,
                <<PStr(SEARCH_KEYWORDS), PStr(<<"a", "t", "s">>)>> >>),
       PDict(<< <<PStr(<<"T", "a", "r", "g", "e", "t", "_", "S", "u", "b", "r", "e", "d", "d", "i", "t", "s">>), PStr(<<"s", "a", "l", "e", "s">>)>> >>),
       PDict(<< <<PStr(<<"p", "r", "o", "j", "e", "c", "t", "_", "n", "a", "m", "e">>), PStr(<<"X">>)>> >>) >>

\* tables: one with the column under another case and a missing cell, one with
\* the same label on two columns
FramePool ==
    << PFrame(<<PStr(<<"T", "a", "r", "g", "e", "t", "_", "S", "u", "b", "r", "e", "d", "d", "i", "t", "s">>), PInt(0)>>,
              << <<PStr(<<"h", "r">>), PInt(1)>>, <<PNone, PInt(2)>> >>),
       PFrame(<<PStr(SEARCH_KEYWORDS), PStr(SEARCH_KEYWORDS)>>,
              << <<PStr(<<"a", "t", "s">>), PStr(<<"c", "r", "m">>)>> >>) >>

Injective(f) == \A i, j \in DOMAIN f : i # j => f[i] # f[j]

NoOutcome == [fn |-> "none", raised |-> FALSE, val |-> <<>>]

botIdle ==
    /\ posts = init_db /\ now = 0 /\ botPc = "off" /\ subIdx = 0
    /\ pending = <<>> /\ total_new = 0 /\ scanLog = <<>>
    /\ saveCall = NoSave /\ raw_data = <<>> /\ readAt = NoRead
    /\ report = NoReport
    /\ firstCall = [id \in PostIds |-> <<>>]

\* the inputs: dicts and lists built from the pools, the tables, scalars
NormInit ==
    /\ botIdle
    /\ engineIdle
    /\ mainIdle
    /\ normOut = NoOutcome
    /\ \E f \in DOMAIN FieldNames : normField = FieldNames[f]
    /\ \/ \E n \in 0..MaxItems :
            \E ks \in [1..n -> DOMAIN KeyPool], vs \in [1..n -> DOMAIN ValPool] :
               /\ Injective(ks)
               /\ normData = PDict([i \in 1..n |-> <<KeyPool[ks[i]], ValPool[vs[i]]>>])
       \/ \E n \in 0..MaxItems :
            \E vs \in [1..n -> DOMAIN ValPool] :
               normData = PList([i \in 1..n |-> ValPool[vs[i]]])
       \/ \E i \in DOMAIN FramePool : normData = FramePool[i]
       \/ \E i \in 1..3 : normData = ValPool[i]

\* get_list_from_data of app.py is called
NormApply ==
    /\ normOut.fn = "none"
    /\ normOut' = [fn |-> "app"] @@ get_list_from_data(normData, normField)
    /\ UNCHANGED <<normData, normField, botVars, engineVars, mainVars>>

\* get_list_from_data of appv1.py is called
NormApplyV1 ==
    /\ normOut.fn = "none"
    /\ normOut' = [fn |-> "appv1", raised |-> FALSE,
                   val |-> get_list_from_data_v1(normData, normField)]
    /\ UNCHANGED <<normData, normField, botVars, engineVars, mainVars>>

NormNext ==
    \/ NormApply
    \/ NormApplyV1

NormSpec == NormInit /\ [][NormNext]_vars

----------------------------------------------------------------------------
(* app.py / appv1.py : run_universal_engine *)

\* subreddit.search(..., limit=10) in app.py, limit=15 in appv1.py
SearchLimitApp == 10
SearchLimitV1 == 15
SearchLimit(vr) == IF vr = "app" THEN SearchLimitApp ELSE SearchLimitV1

\* collected_data[:20] in app.py, collected_data[:40] in appv1.py
CorpusCapApp == 20
CorpusCapV1 == 40
CorpusCap(vr) == IF vr = "app" THEN CorpusCapApp ELSE CorpusCapV1

\* the literal of the comment filter: num_comments > 1 in app.py, > 0 in appv1.py
CommentFloorApp == 1
CommentFloorV1 == 0
CommentFloor(vr) == IF vr = "app" THEN CommentFloorApp ELSE CommentFloorV1

\* (variation: the comparison written >=)
KeptAtFloor(vr, num_comments) == num_comments >= CommentFloor(vr)

\* if post.num_comments > 1:   /   if post.num_comments > 0:
Kept(vr, num_comments) == num_comments > CommentFloor(vr)

\* the delimiter of app.py line 179 and appv1.py line 178
Delimiter == [text |-> "\n---\n"]

\* "\n---\n".join(blocks)
JoinBlocks(blocks) == Join(blocks, Delimiter)

\* (variation: the last items instead of the first)
LastItems(items, cap) == SubSeq(items, Len(items) - Min(Len(items), cap) + 1, Len(items))

\* collected_data[:cap]
FirstItems(items, cap) == SubSeq(items, 1, Min(Len(items), cap))

\* the num_comments of the posts one search can yield, at most limit of them
Pages(limit) ==
    { <<>>,
      <<0>>,
      <<0, 3, 5>>,
      <<1, 2>>,
      [i \in 1..limit |-> 2 + (i % 2)],
      [i \in 1..limit |-> i % 3] }

RECURSIVE Blocks(_, _, _, _, _)
\* the blocks one search appends: a block per post that passes the filter
Blocks(vr, sub, call, page, k) ==
    IF k > Len(page) THEN <<>>
    ELSE (IF Kept(vr, page[k])
          THEN <<[sub |-> sub, call |-> call, k |-> k, num_comments |-> page[k]]>>
          ELSE <<>>)
         \o Blocks(vr, sub, call, page, k + 1)

\* app.py line 154: str(sub).replace("r/", "").replace("R/", "").strip()
CleanSub(sub) ==
    PyStrip(PyRemoveAll(PyRemoveAll(PyStr(sub), <<"r", "/">>), <<"R", "/">>))

\* appv1.py line 138, one element: str(t).replace("r/", "").strip()
CleanTargetV1(t) == PyStrip(PyRemoveAll(PyStr(t), <<"r", "/">>))

\* truthiness of a value in `if t`
Truthy(x) ==
    CASE x.t = "none" -> FALSE
      [] x.t = "int" -> x.v # 0
      [] x.t = "frame" -> TRUE
      [] OTHER -> x.v # <<>>

RECURSIVE CleanedV1(_)
\* appv1.py line 138
CleanedV1(ts) ==
    IF ts = <<>> THEN <<>>
    ELSE (IF Truthy(Head(ts)) THEN <<CleanTargetV1(Head(ts))>> ELSE <<>>)
         \o CleanedV1(Tail(ts))

\* appv1.py line 139, list(set(targets)): the distinct names in any order
SetOrders(names) ==
    LET D == Range(names)
        n == Cardinality(D)
    IN  {s \in [1..n -> D] : \A i, j \in 1..n : i # j => s[i] # s[j]}

\* app.py line 143 and line 148
FallbackTargets == <<PStr(<<"a", "l", "l">>)>>
DefaultKeywords == <<PStr(<<"d", "i", "s", "c", "u", "s", "s", "i", "o", "n">>), PStr(<<"r", "e", "v", "i", "e", "w">>)>>

\* app.py line 162: " OR ".join([str(k) for k in keywords]), as its terms
QueryApp(kws) == [i \in DOMAIN kws |-> PyStr(kws[i])]

\* the plans handed to run_universal_engine
Recipes ==
    << \* the object the app.py prompt asks for
       PDict(<< <<PStr(<<"p", "r", "o", "j", "e", "c", "t", "_", "n", "a", "m", "e">>), PStr(<<"X">>)>>,
                <<PStr(TARGET_SUBREDDITS), PList(<<PStr(<<"r", "e", "c", "r", "u", "i", "t", "i", "n", "g">>), PStr(<<"s", "a", "l", "e", "s">>)>>)>>,
                <<PStr(SEARCH_KEYWORDS), PList(<<PStr(<<"t", "o", "o", "l", "A">>), PStr(<<"t", "o", "o", "l", "B">>)>>)>>,
                <<PStr(<<"a", "i", "_", "i", "n", "s", "t", "r", "u", "c", "t", "i", "o", "n">>), PStr(<<"c", "o", "m", "p", "a", "r", "e", " ", "p", "r", "i", "c", "i", "n", "g">>)>> >>),
       \* three targets, with the prefix in both cases
       PDict(<< <<PStr(TARGET_SUBREDDITS),
                  PList(<<PStr(<<"r", "/", "h", "r">>), PStr(<<"R", "/", "a", "i">>), PStr(<<"j", "o", "b", "s">>)>>)>>,
                <<PStr(SEARCH_KEYWORDS), PList(<<PStr(<<"a", "t", "s">>)>>)>> >>),
       \* keywords and no targets
       PDict(<< <<PStr(SEARCH_KEYWORDS), PList(<<PStr(<<"a", "t", "s">>)>>)>> >>),
       \* nothing
       PDict(<<>>),
       \* the rows the appv1.py prompt asks for, one target twice
       PList(<< PDict(<< <<PStr(TARGET_SUBREDDIT), PStr(<<"r", "/", "h", "r">>)>>,
                         <<PStr(SEARCH_KEYWORDS), PStr(<<"a", "t", "s", " ", "O", "R", " ", "c", "r", "m">>)>> >>),
                PDict(<< <<PStr(TARGET_SUBREDDIT), PStr(<<"s", "a", "l", "e", "s">>)>>,
                         <<PStr(SEARCH_KEYWORDS), PStr(<<"p", "r", "i", "c", "i", "n", "g">>)>> >>),
                PDict(<< <<PStr(TARGET_SUBREDDIT), PStr(<<"h", "r">>)>>,
                         <<PStr(SEARCH_KEYWORDS), PStr(<<"s", "c", "a", "m">>)>> >>) >>),
       \* rows with three targets and no keywords
       PList(<< PDict(<< <<PStr(TARGET_SUBREDDIT), PStr(<<"h", "r">>)>> >>),
                PDict(<< <<PStr(TARGET_SUBREDDIT), PStr(<<"a", "i">>)>> >>),
                PDict(<< <<PStr(TARGET_SUBREDDIT), PStr(<<"j", "o", "b", "s">>)>> >>) >>),
       \* rows with three targets and one keyword
       PList(<< PDict(<< <<PStr(TARGET_SUBREDDITS), PStr(<<"h", "r">>)>>,
                         <<PStr(SEARCH_KEYWORDS), PStr(<<"a", "t", "s">>)>> >>),
                PDict(<< <<PStr(TARGET_SUBREDDITS), PStr(<<"a", "i">>)>> >>),
                PDict(<< <<PStr(TARGET_SUBREDDITS), PStr(<<"j", "o", "b", "s">>)>> >>) >>),
       \* the data editor's row-keyed form, with a row that is no mapping
       PDict(<< <<PInt(0), PDict(<< <<PStr(TARGET_SUBREDDITS), PStr(<<"h", "r">>)>> >>)>>,
                <<PInt(1), PInt(5)>> >>),
       \* rows naming one community three ways
       PList(<< PDict(<< <<PStr(TARGET_SUBREDDITS), PStr(<<"r", "/", "h", "r">>)>>,
                         <<PStr(SEARCH_KEYWORDS), PStr(<<"a", "t", "s">>)>> >>),
                PDict(<< <<PStr(TARGET_SUBREDDITS), PStr(<<"R", "/", "h", "r">>)>> >>),
                PDict(<< <<PStr(TARGET_SUBREDDITS), PStr(<<"h", "r">>)>> >>) >>) >>

EngineInit ==
    /\ botIdle
    /\ normIdle
    /\ mainIdle
    /\ variant \in {"app", "appv1"}
    /\ \E r \in DOMAIN Recipes : recipe = Recipes[r]
    /\ enginePc = "start"
    /\ targets = <<>>
    /\ keywords = <<>>
    /\ tIdx = 0
    /\ collected_data = <<>>
    /\ searchLog = <<>>
    /\ llmInput = <<>>
    /\ llmCalls = 0
    /\ result = "none"

\* run_universal_engine returns (or an exception leaves it) before the loop
Leave(res) ==
    /\ result' = res
    /\ enginePc' = "done"
    /\ UNCHANGED <<variant, recipe, targets, keywords, tIdx, collected_data,
                   searchLog, llmInput, llmCalls>>

\* the loop is entered with these targets and keywords
EnterLoop(ts, kws) ==
    /\ targets' = ts
    /\ keywords' = kws
    /\ tIdx' = 1
    /\ enginePc' = "scan"
    /\ UNCHANGED <<variant, recipe, collected_data, searchLog, llmInput,
                   llmCalls, result>>

\* lines 121-128 (app.py), 119-126 (appv1.py): praw.Reddit(...) raises
ConnectFails ==
    /\ enginePc = "start"
    /\ Leave("ErrorConnecting")
    /\ UNCHANGED <<botVars, normVars, mainVars>>

\* app.py lines 135-150
ExtractApp ==
    /\ enginePc = "start"
    /\ variant = "app"
    /\ LET t == get_list_from_data(recipe, TARGET_SUBREDDITS)
           k == get_list_from_data(recipe, SEARCH_KEYWORDS)
       IN  IF t.raised \/ k.raised THEN Leave("Exception")
           ELSE IF t.val = <<>> /\ k.val = <<>> THEN Leave("StrategyEmpty")
           ELSE EnterLoop(IF t.val = <<>> THEN FallbackTargets ELSE t.val,
                          IF k.val = <<>> THEN DefaultKeywords ELSE k.val)
    /\ UNCHANGED <<botVars, normVars, mainVars>>

\* appv1.py lines 131-142
ExtractV1 ==
    /\ enginePc = "start"
    /\ variant = "appv1"
    /\ LET singular == get_list_from_data_v1(recipe, TARGET_SUBREDDIT)
           t == IF singular = <<>>
                THEN get_list_from_data_v1(recipe, TARGET_SUBREDDITS)
                ELSE singular
           k == get_list_from_data_v1(recipe, SEARCH_KEYWORDS)
           cleaned == CleanedV1(t)
       IN  IF cleaned = <<>> THEN Leave("NoSubreddits")
           ELSE \E order \in SetOrders(cleaned) :
                   EnterLoop([i \in DOMAIN order |-> PStr(order[i])], k)
    /\ UNCHANGED <<botVars, normVars, mainVars>>

\* the name searched for the current target
SearchedName == IF variant = "app" THEN CleanSub(targets[tIdx]) ELSE targets[tIdx].v

\* the query of the current iteration; appv1.py line 153 raises IndexError
\* before any search when keywords is empty
QueryRaises == variant = "appv1" /\ keywords = <<>>
Query ==
    IF variant = "app" THEN QueryApp(keywords)
    ELSE <<PyStr(keywords[IF tIdx - 1 < Len(keywords) THEN tIdx ELSE 1])>>

\* (variation: one try around the whole loop, a failure ends the scan)
AdvanceUntilFailure ==
    /\ tIdx' = tIdx + 1
    /\ enginePc' = IF tIdx < Len(targets) /\ searchLog'[Len(searchLog')].ok
                   THEN "scan" ELSE "final"

\* the loop goes on to the next target, or ends
Advance ==
    /\ tIdx' = tIdx + 1
    /\ enginePc' = IF tIdx < Len(targets) THEN "scan" ELSE "final"

\* one iteration of the scanning loop whose search returns a page
ScanOk ==
    /\ enginePc = "scan"
    /\ ~QueryRaises
    /\ \E page \in Pages(SearchLimit(variant)) :
          /\ collected_data' =
                collected_data \o Blocks(variant, SearchedName, tIdx, page, 1)
          /\ searchLog' = Append(searchLog,
                [sub |-> SearchedName, call |-> tIdx, issued |-> TRUE,
                 ok |-> TRUE, query |-> Query, page |-> page])
    /\ Advance
    /\ UNCHANGED <<variant, recipe, targets, keywords, llmInput, llmCalls, result>>
    /\ UNCHANGED <<botVars, normVars, mainVars>>

\* one iteration whose try block raises: the except prints and the loop goes on
ScanFails ==
    /\ enginePc = "scan"
    /\ searchLog' = Append(searchLog,
          [sub |-> SearchedName, call |-> tIdx, issued |-> ~QueryRaises,
           ok |-> FALSE, query |-> IF QueryRaises THEN <<>> ELSE Query,
           page |-> <<>>])
    /\ Advance
    /\ UNCHANGED <<variant, recipe, targets, keywords, collected_data,
                   llmInput, llmCalls, result>>
    /\ UNCHANGED <<botVars, normVars, mainVars>>

\* if not collected_data: return "No relevant data found ..."
FinalNoData ==
    /\ enginePc = "final"
    /\ collected_data = <<>>
    /\ Leave("NoData")
    /\ UNCHANGED <<botVars, normVars, mainVars>>

\* (variation: the `if not collected_data` return left out)
SynthesizeUnguarded ==
    /\ enginePc = "final"
    /\ llmInput' = JoinBlocks(FirstItems(collected_data, CorpusCap(variant)))
    /\ llmCalls' = llmCalls + 1
    /\ \E ok \in BOOLEAN : result' = IF ok THEN "Report" ELSE "AnalysisFailed"
    /\ enginePc' = "done"
    /\ UNCHANGED <<variant, recipe, targets, keywords, tIdx, collected_data, searchLog>>
    /\ UNCHANGED <<botVars, normVars, mainVars>>

\* lines 179-201 (app.py), 178-200 (appv1.py): the join, the completion call
\* and the return of its text or of "Analysis Failed"
Synthesize ==
    /\ enginePc = "final"
    /\ collected_data # <<>>
    /\ llmInput' = JoinBlocks(FirstItems(collected_data, CorpusCap(variant)))
    /\ llmCalls' = llmCalls + 1
    /\ \E ok \in BOOLEAN : result' = IF ok THEN "Report" ELSE "AnalysisFailed"
    /\ enginePc' = "done"
    /\ UNCHANGED <<variant, recipe, targets, keywords, tIdx, collected_data, searchLog>>
    /\ UNCHANGED <<botVars, normVars, mainVars>>

EngineNext ==
    \/ ConnectFails
    \/ ExtractApp
    \/ ExtractV1
    \/ ScanOk
    \/ ScanFails
    \/ FinalNoData
    \/ Synthesize

EngineSpec == EngineInit /\ [][EngineNext]_vars

----------------------------------------------------------------------------
(* The three programs side by side: a behaviour is one of the bot, one run *)
(* of the engine, or one call of get_list_from_data.                       *)

FullInit == Init \/ EngineInit \/ NormInit

FullNext == Next \/ EngineNext \/ NormNext

FullSpec == FullInit /\ [][FullNext]_vars

----------------------------------------------------------------------------
(* Properties of run_universal_engine *)

\* the target list line 135 (app.py) or lines 131-139 (appv1.py) extracts
ExtractionRaises ==
    /\ variant = "app"
    /\ \/ get_list_from_data(recipe, TARGET_SUBREDDITS).raised
       \/ get_list_from_data(recipe, SEARCH_KEYWORDS).raised

ExtractedTargets ==
    IF variant = "app"
    THEN get_list_from_data(recipe, TARGET_SUBREDDITS).val
    ELSE LET singular == get_list_from_data_v1(recipe, TARGET_SUBREDDIT)
         IN  CleanedV1(IF singular = <<>>
                       THEN get_list_from_data_v1(recipe, TARGET_SUBREDDITS)
                       ELSE singular)

\* the run got past the connection and the extraction
PastExtraction ==
    /\ enginePc \in {"scan", "final", "done"}
    /\ result # "ErrorConnecting"
    /\ ~ExtractionRaises

\* C4 (as claimed): with an empty extracted target list the run returns an
\* empty-target-list error, issues no search and substitutes no default
\* scope, whatever the keywords.
C4_EmptyTargetsFailFast ==
    (PastExtraction /\ ExtractedTargets = <<>>) =>
        /\ enginePc = "done"
        /\ result \in {"StrategyEmpty", "NoSubreddits"}
        /\ targets = <<>>
        /\ searchLog = <<>>

RECURSIVE BlocksOfEntry(_, _, _)
\* the posts of one logged search with enough comments, from the k-th on
BlocksOfEntry(e, floor, k) ==
    IF k > Len(e.page) THEN <<>>
    ELSE (IF e.page[k] >= floor
          THEN <<[sub |-> e.sub, call |-> e.call, k |-> k, num_comments |-> e.page[k]]>>
          ELSE <<>>)
         \o BlocksOfEntry(e, floor, k + 1)

RECURSIVE BlocksOfLog(_, _)
\* what the logged searches that succeeded account for, in order of the calls
BlocksOfLog(log, floor) ==
    IF log = <<>> THEN <<>>
    ELSE BlocksOfLog(SubSeq(log, 1, Len(log) - 1), floor)
         \o (IF log[Len(log)].ok THEN BlocksOfEntry(log[Len(log)], floor, 1) ELSE <<>>)

\* C5: every target of the list is attempted exactly once, in list order,
\* whichever of them raise; the collected items are those of the targets
\* that succeeded, so one succeeding target with qualifying posts gives a
\* non-empty corpus.  The hourly scan likewise attempts every subreddit of
\* its list in order.
C5_EveryTargetAttempted ==
    /\ enginePc \in {"scan", "final", "done"} /\ targets # <<>> =>
          /\ Len(searchLog) = (IF enginePc = "scan" THEN tIdx - 1 ELSE Len(targets))
          /\ \A i \in DOMAIN searchLog :
                /\ searchLog[i].call = i
                /\ searchLog[i].sub =
                      (IF variant = "app" THEN CleanSub(targets[i]) ELSE targets[i].v)
          /\ \A j \in DOMAIN collected_data :
                searchLog[collected_data[j].call].ok
          /\ collected_data = BlocksOfLog(searchLog, IF variant = "app" THEN 2 ELSE 1)
          /\ (enginePc = "done" /\ collected_data # <<>>) =>
                llmCalls = 1 /\ llmInput # <<>>
    /\ botPc \in {"search", "save"} =>
          /\ Len(scanLog) = (IF botPc = "search" THEN subIdx - 1 ELSE subIdx)
          /\ \A i \in DOMAIN scanLog : scanLog[i].sub = target_subreddits[i]
    /\ botPc = "idle" /\ scanLog # <<>> =>
          [i \in DOMAIN scanLog |-> scanLog[i].sub] = target_subreddits

\* a finished run in which one target raised, a later one succeeded and the
\* corpus is not empty
C5_Witness ==
    /\ enginePc = "done"
    /\ \E i, j \in DOMAIN searchLog : i < j /\ ~searchLog[i].ok /\ searchLog[j].ok
    /\ collected_data # <<>>
    /\ llmCalls = 1

\* C6: when the scanning loop ends with nothing collected, the run returns
\* the no-data message and makes no completion call; a completion call is
\* made only with a non-empty corpus.  The daily report makes no completion
\* call either when the window read is empty.
C6_NoDataNoSynthesis ==
    /\ (enginePc = "done" /\ targets # <<>> /\ collected_data = <<>>) =>
          result = "NoData" /\ llmCalls = 0 /\ llmInput = <<>>
    /\ (enginePc = "final" /\ collected_data = <<>>) => llmCalls = 0
    /\ llmCalls > 0 => collected_data # <<>> /\ result \in {"Report", "AnalysisFailed"}
    /\ report.state = "skipped" => raw_data = <<>> /\ report.calls = 0
    /\ (readAt # NoRead /\ raw_data = <<>>) => report.state = "skipped"
    /\ report.calls > 0 => raw_data # <<>>

\* a finished run whose targets all failed or gave nothing that passed the filter
C6_Witness ==
    /\ enginePc = "done"
    /\ result = "NoData"
    /\ \E i, j \in DOMAIN searchLog :
          /\ ~searchLog[i].ok
          /\ searchLog[j].ok /\ searchLog[j].page # <<>>

\* C7: the text handed to the completion call is the first CorpusCap collected
\* items, in append order, separated by the delimiter: never more items than
\* the cap, none reordered.
C7_CorpusIsCappedPrefix ==
    llmCalls > 0 =>
        LET n == Min(Len(collected_data), CorpusCap(variant))
        IN  /\ Len(llmInput) = 2 * n - 1
            /\ \A i \in 1..n : llmInput[2 * i - 1] = collected_data[i]
            /\ \A i \in 1..(n - 1) : llmInput[2 * i] = Delimiter
            /\ n <= (IF variant = "app" THEN 20 ELSE 40)

\* an appv1.py run that collected more than the cap
C7_Witness ==
    /\ llmCalls > 0
    /\ variant = "appv1"
    /\ Len(collected_data) > CorpusCap(variant)
    /\ \E i, j \in DOMAIN collected_data : collected_data[i].call # collected_data[j].call

\* whether the k-th post of the i-th search was collected
Collected(i, k) ==
    \E j \in DOMAIN collected_data :
        collected_data[j].call = i /\ collected_data[j].k = k

\* the scenario of two targets: posts with 0, 3 and 5 comments, then none
Scenario ==
    /\ enginePc = "done"
    /\ Len(searchLog) = 2
    /\ searchLog[1].ok /\ searchLog[1].page = <<0, 3, 5>>
    /\ searchLog[2].ok /\ searchLog[2].page = <<>>

\* C8 (as claimed): a search result is collected if and only if its
\* engagement is at least minEngagement, with minEngagement = 1.
C8_InclusiveAtOne ==
    \A i \in DOMAIN searchLog :
        searchLog[i].ok =>
            \A k \in DOMAIN searchLog[i].page :
                Collected(i, k) <=> searchLog[i].page[k] >= 1

\* C8 (amended): a search result is collected if and only if its comment
\* count is strictly above the literal of the variant (1 in app.py, 0 in
\* appv1.py), that is at least 2 in app.py and at least 1 in appv1.py; in
\* the scenario the corpus is the two items with 3 and 5 comments and the
\* completion call receives exactly those.
C8_StrictAboveLiteral ==
    /\ \A i \in DOMAIN searchLog :
          searchLog[i].ok =>
              \A k \in DOMAIN searchLog[i].page :
                  Collected(i, k) <=>
                      searchLog[i].page[k] >= (IF variant = "app" THEN 2 ELSE 1)
    /\ Scenario =>
          /\ [j \in DOMAIN collected_data |-> collected_data[j].num_comments] = <<3, 5>>
          /\ llmCalls = 1
          /\ llmInput = <<collected_data[1], Delimiter, collected_data[2]>>

\* the scenario, run to its end
C8_Witness == Scenario /\ recipe = Recipes[1]

----------------------------------------------------------------------------
(* Properties of get_list_from_data *)

\* C9 (as claimed): get_list_from_data returns a sequence and never raises,
\* for every input and field name, mappings with integer and string keys
\* and values of any type included.
C9_NeverRaises == normOut.fn \in {"app", "appv1"} => ~normOut.raised

\* a mapping keyed by position whose values are all mappings
IsRowDict(data) ==
    /\ data.t = "dict" /\ data.v # <<>>
    /\ \A i \in DOMAIN data.v : data.v[i][1].t = "int" /\ data.v[i][2].t = "dict"

\* a sequence of row mappings
IsRowList(data) ==
    /\ data.t = "list" /\ data.v # <<>>
    /\ \A i \in DOMAIN data.v : data.v[i].t = "dict"

\* the keys of a row that name the field, exactly or ignoring case
FieldKeys(row, field) ==
    {i \in DOMAIN row.v :
        row.v[i][1].t = "str" /\ PyLower(row.v[i][1].v) = PyLower(field)}

RECURSIVE FieldOfRows(_, _)
\* per row in order: the value under the field name, rows without it skipped
FieldOfRows(rows, field) ==
    IF rows = <<>> THEN <<>>
    ELSE LET hits == FieldKeys(Head(rows), field)
         IN  (IF hits = {} THEN <<>>
              ELSE <<Head(rows).v[CHOOSE i \in hits : \A j \in hits : i <= j][2]>>)
             \o FieldOfRows(Tail(rows), field)

RECURSIVE ExactOfRows(_, _)
\* per inner mapping in iteration order: its value at the field name
ExactOfRows(items, field) ==
    IF items = <<>> THEN <<>>
    ELSE (IF DictHas(Head(items)[2], PStr(field))
          THEN <<DictGet(Head(items)[2], PStr(field))>> ELSE <<>>)
         \o ExactOfRows(Tail(items), field)

\* C10 (as claimed): on a well-formed input app.py's get_list_from_data
\* returns the field's values in order: the field's list verbatim or its
\* scalar as one element for a mapping with the field; per row the value at
\* the field (exact or case-insensitive key), rows without it skipped, for a
\* sequence of rows; the matches of each inner mapping for a mapping of
\* positional keys to rows.
C10_RecoversField ==
    normOut.fn = "app" =>
        /\ (normData.t = "dict" /\ DictHas(normData, PStr(normField))) =>
              LET val == DictGet(normData, PStr(normField))
              IN  /\ ~normOut.raised
                  /\ IF val.t = "list" THEN normOut.val = val.v
                     ELSE Len(normOut.val) = 1
        /\ (IsRowList(normData)
            /\ \A i \in DOMAIN normData.v :
                  Cardinality(FieldKeys(normData.v[i], normField)) <= 1) =>
              /\ ~normOut.raised
              /\ normOut.val = FieldOfRows(normData.v, normField)
        /\ IsRowDict(normData) =>
              /\ ~normOut.raised
              /\ normOut.val = ExactOfRows(normData.v, normField)

\* the keys of a row mapping, in order
KeysOfRow(row) == [j \in DOMAIN row.v |-> row.v[j][1]]

\* a sequence of row mappings that all carry the same fields, each holding
\* a text value
UniformRows(data) ==
    /\ IsRowList(data)
    /\ \A i \in DOMAIN data.v :
          /\ KeysOfRow(data.v[i]) = KeysOfRow(data.v[1])
          /\ \A j \in DOMAIN data.v[i].v : data.v[i].v[j][2].t = "str"

\* the same content as one object: each field holds the array of the rows'
\* values
ObjectOfRows(rows) ==
    PDict([j \in DOMAIN rows[1].v |->
              <<rows[1].v[j][1], PList([i \in DOMAIN rows |-> rows[i].v[j][2]])>>])

\* the outcome of the normaliser of one variant
NormalizedBy(fn, data, field) ==
    IF fn = "app" THEN get_list_from_data(data, field)
    ELSE Returned(get_list_from_data_v1(data, field))

\* C11 (as claimed): normalising rows (one row per value) and normalising
\* the single object whose fields hold the same values as arrays yield the
\* same sequence, in app.py and in appv1.py.
C11_ShapeIndependent ==
    (normOut.fn \in {"app", "appv1"} /\ UniformRows(normData)) =>
        LET asObject == NormalizedBy(normOut.fn, ObjectOfRows(normData.v), normField)
        IN  /\ asObject.raised = normOut.raised
            /\ asObject.val = normOut.val

(* Properties of the scanned target list *)

\* the extracted target names before any cleaning, as text
RawTargets ==
    IF variant = "app" THEN [i \in DOMAIN targets |-> PyStr(targets[i])]
    ELSE LET singular == get_list_from_data_v1(recipe, TARGET_SUBREDDIT)
             t == IF singular = <<>>
                  THEN get_list_from_data_v1(recipe, TARGET_SUBREDDITS)
                  ELSE singular
         IN  [i \in DOMAIN t |-> PyStr(t[i])]

\* the name starts with "r/" in either case
HasPrefix(s) == Len(s) >= 2 /\ PyLower(SubSeq(s, 1, 2)) = <<"r", "/">>

\* the name without its leading "r/" or "R/", the rest as it was
StripPrefix(s) == IF HasPrefix(s) THEN SubSeq(s, 3, Len(s)) ELSE s

\* C12 (as claimed): no target identifier is searched twice in one run, no
\* scanned identifier still starts with "r/" or "R/", and each scanned
\* identifier is an extracted target with only its leading prefix removed.
C12_TargetsDedupedAndStripped ==
    \A i \in DOMAIN searchLog :
        /\ \A j \in DOMAIN searchLog :
              i # j => searchLog[i].sub # searchLog[j].sub
        /\ ~HasPrefix(searchLog[i].sub)
        /\ \E k \in DOMAIN RawTargets :
              searchLog[i].sub = PyStrip(StripPrefix(RawTargets[k]))

----------------------------------------------------------------------------
(* production_bot.py : the digest text of generate_daily_report, applied to *)
(* window reads of bounded size                                            *)

\* most rows of either heat class in a window read
MaxRows == 21

\* a result of get_unreported_data: nHigh rows at or above min_heat_score,
\* then nLow rows below it, in ORDER BY heat_score DESC order
ReadResult(nHigh, nLow) ==
    [i \in 1..(nHigh + nLow) |->
        LET id == "q" \o ToString(i)
            v == IF i <= nHigh THEN 2 ELSE 1
        IN  NewRow([id |-> id, subreddit |-> "recruiting",
                    title |-> TitleOf(id, v), body |-> BodyOf(id, v),
                    url |-> UrlOf(id), heat_score |-> HeatOf(v)], 0)]

\* generate_daily_report has read the window, line 130
DigestInit ==
    /\ posts = init_db /\ now = 0 /\ botPc = "report" /\ subIdx = 0
    /\ pending = <<>> /\ total_new = 0 /\ scanLog = <<>>
    /\ saveCall = NoSave /\ readAt = 0
    /\ report = NoReport
    /\ firstCall = [id \in PostIds |-> <<>>]
    /\ \E nHigh \in 0..MaxRows, nLow \in 0..MaxRows :
          raw_data = ReadResult(nHigh, nLow)
    /\ engineIdle
    /\ normIdle
    /\ mainIdle

\* lines 132-186: the "No data found" return, or the text blob and one
\* completion call
ComposeDigest ==
    /\ botPc = "report"
    /\ IF raw_data = <<>>
       THEN report' = [state |-> "skipped", calls |-> 0, blob |-> <<>>]
       ELSE \E ok \in BOOLEAN :
               report' = [state |-> IF ok THEN "saved" ELSE "failed",
                          calls |-> 1,
                          blob |-> TextBlob(CombinedData(raw_data))]
    /\ botPc' = "idle"
    /\ UNCHANGED <<posts, now, subIdx, pending, total_new, scanLog, saveCall,
                   raw_data, readAt, firstCall>>
    /\ UNCHANGED <<engineVars, normVars, mainVars>>

DigestNext == ComposeDigest

DigestSpec == DigestInit /\ [][DigestNext]_vars

\* the item blocks of a text blob
BlockCount(blob) == Cardinality({i \in DOMAIN blob : blob[i] # [text |-> "\n"]})

\* C13 (as claimed): the number of item blocks in the text passed to the
\* completion request is bounded by the fixed cap of the digest, however
\* many rows the window read returned.
C13_DigestCapped ==
    report.calls = 1 => BlockCount(report.blob) <= LowHeatCap

----------------------------------------------------------------------------
(* production_bot.py : __main__, lines 189-212, on a wall clock in minutes *)

\* STRATEGY['report_hour']
report_hour == 18

\* `now.minute < 5`, line 200
ReportMinutes == 5

\* time.sleep(3600), line 209, and time.sleep(3900), line 204, in minutes
SleepMinutes == 60
LongSleepMinutes == 65

\* datetime: minutes of an hour, hours of a day
MinutesPerHour == 60
HoursPerDay == 24

\* now.hour, now.minute and the calendar day of a clock value
HourOf(t) == (t \div MinutesPerHour) % HoursPerDay
MinuteOf(t) == t % MinutesPerHour
DayOf(t) == t \div (MinutesPerHour * HoursPerDay)

\* line 200: now.hour == STRATEGY['report_hour'] and now.minute < 5
IsReportTime(t) == HourOf(t) = report_hour /\ MinuteOf(t) < ReportMinutes

\* horizon of the clock: two days
MaxClock == 2880

\* the times of day 0 the process may be started at: 17:04 and 10:30
StartTimes == {17 * MinutesPerHour + 4, 10 * MinutesPerHour + 30}

\* how long one run_hourly_scan may take, in minutes
ScanMinutes == {0, 3}

\* the post p1 is on the result pages (sort="new", limit=50) from 17:00 of
\* day 0 until newer posts push it off at 18:05
ListedFrom == 17 * MinutesPerHour
ListedUntil == 18 * MinutesPerHour + 5

\* what the searches of a scan started at t yield together: nothing, or p1
ScanFinds(t) ==
    IF ListedFrom <= t /\ t <= ListedUntil THEN {<<>>, <<"p1">>} ELSE {<<>>}

\* WHERE captured_at > since_time with the clock in minutes
InWindowAt(row, t) == row.captured_at > t - WindowHours * MinutesPerHour

\* the rows get_unreported_data's WHERE clause keeps, in rowid order
WindowRowsAt(tbl, t) == SelectSeq(tbl, LAMBDA row : InWindowAt(row, t))

IdsOf(rows) == {rows[i].id : i \in DOMAIN rows}

\* __main__: init_db() is done, the startup scan of line 194 is next
MainInit ==
    /\ botIdle
    /\ engineIdle
    /\ normIdle
    /\ clock \in StartTimes
    /\ mainPc = "scan"
    /\ reportLog = <<>>

\* run_hourly_scan(), line 194 or line 212: it takes d minutes and saves
\* what it found, save_post stamping datetime.now()
MainScan ==
    /\ mainPc = "scan"
    /\ \E d \in ScanMinutes, found \in ScanFinds(clock), v \in Versions :
          /\ clock + d <= MaxClock
          /\ \E at \in {clock, clock + d} :
                posts' =
                    IF found = <<>> THEN posts
                    ELSE LET id == found[1]
                             post_data ==
                                 [id |-> id, subreddit |-> SubOf(id),
                                  title |-> TitleOf(id, v), body |-> BodyOf(id, v),
                                  url |-> UrlOf(id), heat_score |-> HeatOf(v)]
                         IN  SavePostTable(posts, post_data, at, TRUE)
          /\ clock' = clock + d
    /\ mainPc' = "check"
    /\ UNCHANGED <<now, botPc, subIdx, pending, total_new, scanLog, saveCall,
                   raw_data, readAt, report, firstCall, reportLog>>
    /\ UNCHANGED <<engineVars, normVars>>

\* lines 197-205: it is report hour, generate_daily_report() runs, then the
\* 65 minute sleep and `continue`
MainReport ==
    /\ mainPc = "check"
    /\ IsReportTime(clock)
    /\ clock + LongSleepMinutes <= MaxClock
    /\ \E rows \in OrderByHeat(WindowRowsAt(posts, clock)) :
          /\ raw_data' = rows
          /\ IF rows = <<>>
             THEN report' = [state |-> "skipped", calls |-> 0, blob |-> <<>>]
             ELSE \E ok \in BOOLEAN :
                     report' = [state |-> IF ok THEN "saved" ELSE "failed",
                                calls |-> 1,
                                blob |-> TextBlob(CombinedData(rows))]
          /\ reportLog' = Append(reportLog,
                [at |-> clock, returned |-> IdsOf(rows),
                 included |-> IdsOf(CombinedData(rows))])
    /\ readAt' = clock
    /\ clock' = clock + LongSleepMinutes
    /\ mainPc' = "check"
    /\ UNCHANGED <<posts, now, botPc, subIdx, pending, total_new, scanLog,
                   saveCall, firstCall>>
    /\ UNCHANGED <<engineVars, normVars>>

\* lines 207-209: it is not report time, the 60 minute sleep; the scan of
\* line 212 is next
MainSleep ==
    /\ mainPc = "check"
    /\ ~IsReportTime(clock)
    /\ clock + SleepMinutes <= MaxClock
    /\ clock' = clock + SleepMinutes
    /\ mainPc' = "scan"
    /\ UNCHANGED <<botVars, reportLog>>
    /\ UNCHANGED <<engineVars, normVars>>

MainNext ==
    \/ MainScan
    \/ MainReport
    \/ MainSleep

MainSpec == MainInit /\ [][MainNext]_vars

(* Properties of the main loop *)

\* the end of the report hour of day d
ReportHourEnd(d) == (d * HoursPerDay + report_hour + 1) * MinutesPerHour

\* generate_daily_report was invoked during the report hour of day d
ReportedOn(d) ==
    \E i \in DOMAIN reportLog :
        DayOf(reportLog[i].at) = d /\ HourOf(reportLog[i].at) = report_hour

\* C14 (as claimed): on every day generate_daily_report is invoked during
\* that day's report hour: once the loop has run past the report hour of a
\* day, the call of that day has been made, whatever the start time and the
\* duration of the scans.
C14_ReportsEveryDay ==
    \A d \in 0..DayOf(MaxClock) : clock >= ReportHourEnd(d) => ReportedOn(d)

\* C15 (as claimed): no stored post is returned by get_unreported_data
\* after it was included in an earlier report.
C15_NothingReportedTwice ==
    \A i, j \in DOMAIN reportLog :
        i < j => reportLog[i].included \cap reportLog[j].returned = {}
====
